---- MODULE Spec2Model ----
(***************************************************************************)
(* A model of BitcoinBaseChain (the UTXO chain adapter of ren-js):         *)
(* its constructor, argument guards, validateAddress, unit conversion,     *)
(* gateway address derivation, the deposit watcher watchForDeposits and    *)
(* the confirmation query transactionConfidence, together with the         *)
(* provider pool (CombinedAPI), the chain they read, the promises of the   *)
(* deposit handler, the transfer state machine of the gateway orchestrator *)
(* and the stage buttons of the TestEnvironment component.                 *)
(***************************************************************************)
EXTENDS Integers, Sequences, FiniteSets, TLC

(* ------------------------------- bounds -------------------------------- *)

\* Polls (fetchUTXOs queries) one watch session may issue in the model.
MaxPolls == 3
\* Backends registered in the provider pool at construction.
NumProviders == 2
\* Blocks the modelled chain may grow to.
MaxHeight == 5
\* transactionConfidence calls followed in one behaviour.
MaxCalls == 4
\* Backends registered with withAPI after construction.
MaxExtra == 2
\* Largest coefficient of the amounts handed to toSats and fromSats.
MaxMantissa == 12
\* setStage calls of the TestEnvironment component followed in one behaviour.
MaxSets == 14

(* --------------------------- program constants ------------------------- *)

\* tryNTimes(..., 2): attempts of the initial fetchTXs discovery.
TxAttempts == 2
\* assetDecimals returns 8.
AssetDecimals == 8
\* withAPI's default priority.
DefaultPriority == 0
\* toSats and fromSats scale by 10 to the power of 8.
SatsExponent == 8
\* BigNumber's DECIMAL_PLACES: the decimals a division keeps.
DecimalPlaces == 20

(* ------------------------------ value sets ----------------------------- *)

None == "none"

\* Network configurations the adapter can be constructed with (configMap).
ConfigMap ==
    [ mainnet |-> [ selector |-> "Bitcoin", nativeAsset |-> "BTC",
                    isTestnet |-> FALSE, p2shPrefix |-> 5 ],
      testnet |-> [ selector |-> "Bitcoin", nativeAsset |-> "BTC",
                    isTestnet |-> TRUE, p2shPrefix |-> 196 ] ]

Networks == {"mainnet", "testnet"}

\* Assets and payload chains a caller may pass.
Assets == {"BTC", "ETH"}
Chains == {"Bitcoin", "Ethereum"}

\* Address strings a caller may pass: a well-formed address of each network
\* variant of the native asset, and a malformed string.
Addresses ==
    { [ wellFormed |-> TRUE,  asset |-> "BTC", net |-> "prod" ],
      [ wellFormed |-> TRUE,  asset |-> "BTC", net |-> "testnet" ],
      [ wellFormed |-> FALSE, asset |-> "BTC", net |-> "prod" ] }

\* Shard public keys and gateway hashes of createGatewayAddress.
Keys == {1, 2}
GHashes == {1, 2}

\* Provider-side transaction ids are byte strings in display (hex) order.
TxA == [ txid |-> <<1, 2>>, txindex |-> 0, amount |-> 5 ]
TxB == [ txid |-> <<1, 2>>, txindex |-> 1, amount |-> 7 ]
TxC == [ txid |-> <<2, 1>>, txindex |-> 0, amount |-> 9 ]
Outputs == {TxA, TxB, TxC}

ApiIds == 1..NumProviders

\* Arguments a caller may pass to the constructor: a selector string (two
\* known, one unknown), a network config object, or any other value.
NoConfig == [ selector |-> None ]
NetworkInput(kind, selector, config) ==
    [ kind |-> kind, selector |-> selector, config |-> config ]
NetworkInputs ==
    { NetworkInput("string", s, NoConfig) :
          s \in {"mainnet", "testnet", "regtest"} }
    \cup { NetworkInput("config", None, ConfigMap[n]) : n \in Networks }
    \cup { NetworkInput("other", None, NoConfig) }

(* ------------------------------- state --------------------------------- *)

VARIABLES
    network,      \* this.network: the adapter's NetworkConfig
    apis,         \* this.api: the pool's registered [api, priority] records
    \* the chain the providers read
    utxoSet,      \* outputs paying the watched address
    \* one watchForDeposits session
    wpc,          \* "idle", "fetchTXs", "fetchUTXOs", "sleep", "returned", "threw"
    wargs,        \* its asset, fromPayload.chain and address
    werr,         \* the error it threw
    attempt,      \* tryNTimes' attempt in flight
    cancelled,    \* what listenerCancelled() answers
    calls,        \* the onDeposit invocations, in order
    polls,        \* fetchUTXOs queries issued
    txQueries,    \* fetchTXs queries issued
    failedPolls,  \* polls whose query failed
    lateTx,       \* fetchTXs queries issued while listenerCancelled() was true
    latePolls,    \* fetchUTXOs queries issued while listenerCancelled() was true
    lateBatches,  \* batches dispatched while listenerCancelled() was true
    pollTries,    \* fetchUTXOs queries issued in the current loop iteration
    batches,      \* the provider answers dispatched, in order
    \* the last synchronous adapter call and its outcome
    lastCall,
    \* the chain, as far as confirmations go
    height,       \* the chain's current height
    minedAt,      \* << >> while TxA is not mined, else <<h>>: its block's height
    \* transactionConfidence
    tcpc,         \* "idle", "fetchUTXO", "fetchHeight"
    tcTx,         \* the transaction asked about
    tcHeight,     \* the height destructured from fetchUTXO's answer
    tcBy,         \* the backend that answered fetchUTXO
    confCalls,    \* calls made
    lastConf,     \* the last finished call: what was observed, what it gave
    depths,       \* the depths returned by the successful calls, in order
    \* new BitcoinBaseChain(network)
    configMap,    \* the keys of this.configMap when the constructor runs
    ctor,         \* the constructor's argument and its outcome
    \* the pool and one query of it
    explicit,     \* per registration: was a priority passed to withAPI
    qpc,          \* "idle", "trying", "done"
    qTodo,        \* registrations the query has not tried
    qTried,       \* the backends it tried, in order, and how each answered
    qResult,      \* the backend whose answer it returned, 0 when it failed
    \* toSats and fromSats
    uX,           \* an amount in whole units
    uSats,        \* toSats(uX)
    uBack,        \* fromSats(toSats(uX))
    uN,           \* an amount in the smallest unit
    uUnits,       \* fromSats(uN)
    uNBack,       \* toSats(fromSats(uN))
    \* one transfer of the gateway orchestrator
    tState,       \* its TransferState
    tDepth,       \* the confirmation depth it last observed for its deposit
    \* the promises of the onDeposit invocations, by position in calls
    resolved,     \* invocations whose promise has resolved
    rejected,     \* invocations whose promise has rejected after an await
    \* the TestEnvironment component
    stage,        \* its stage state
    pending,      \* startSwap calls awaiting gw.open
    trail         \* the stages set so far, in order

watchVars == << wpc, wargs, werr, attempt, cancelled, calls, polls, txQueries,
                failedPolls, lateTx, latePolls, lateBatches, pollTries,
                batches >>
confVars == << tcpc, tcTx, tcHeight, tcBy, confCalls, lastConf, depths >>
chainVars == << height, minedAt >>
ctorVars == << configMap, ctor >>
queryVars == << explicit, qpc, qTodo, qTried, qResult >>
unitVars == << uX, uSats, uBack, uN, uUnits, uNBack >>
transferVars == << tState, tDepth >>
handlerVars == << resolved, rejected >>
stageVars == << stage, pending, trail >>
restVars == << ctorVars, queryVars, unitVars, transferVars, handlerVars,
              stageVars >>
vars == << network, apis, utxoSet, watchVars, lastCall, chainVars, confVars,
           restVars >>

(* ------------------------------ helpers -------------------------------- *)

\* Buffer.reverse()
RECURSIVE Reverse(_)
Reverse(s) == IF s = << >> THEN << >> ELSE Append(Reverse(Tail(s)), Head(s))

\* How often x occurs in the sequence s.
RECURSIVE Count(_, _)
Count(x, s) ==
    IF s = << >> THEN 0
    ELSE (IF Head(s) = x THEN 1 ELSE 0) + Count(x, Tail(s))

\* Order of two provider records of one address answer.
Before(a, b) ==
    \/ a.txid[1] < b.txid[1]
    \/ a.txid[1] = b.txid[1] /\ a.txindex < b.txindex

\* The list a provider answers for a set of outputs.
RECURSIVE AsList(_)
AsList(S) ==
    IF S = {} THEN << >>
    ELSE LET first == CHOOSE x \in S : \A y \in S \ {x} : Before(x, y)
         IN  <<first>> \o AsList(S \ {first})

(* ---------------------------- provider pool ---------------------------- *)

\* CombinedAPI.withAPI: registers a backend with its priority.
PoolWithAPI(regs, api, priority) ==
    Append(regs, [ api |-> api, priority |-> priority ])

\* A withAPI whose default priority is above every priority a caller passes.
withAPITriedLast(regs, api) == PoolWithAPI(regs, api, 2)

\* BitcoinBaseChain.withAPI: the priority defaults to 0.
withAPI(regs, api) == PoolWithAPI(regs, api, DefaultPriority)

\* The constructor registers every provider of the network config.
RECURSIVE RegisterAll(_, _)
RegisterAll(regs, n) ==
    IF n = 0 THEN regs ELSE withAPI(RegisterAll(regs, n - 1), n)

\* The registration tried next taken in registration order alone.
NextTriedInRegistrationOrder(regs, todo) ==
    CHOOSE i \in todo : \A j \in todo \ {i} : i < j

\* Position of the registration tried next among the positions in todo:
\* lowest priority value first, ties in registration order.
NextTried(regs, todo) ==
    CHOOSE i \in todo : \A j \in todo \ {i} :
        \/ regs[i].priority < regs[j].priority
        \/ regs[i].priority = regs[j].priority /\ i < j

\* The backend whose answer a pool query returns when the backends in down
\* fail: the first one in priority order that succeeds, 0 when all fail.
RECURSIVE ServedFrom(_, _, _)
ServedFrom(regs, todo, down) ==
    IF todo = {} THEN 0
    ELSE LET i == NextTried(regs, todo)
         IN  IF regs[i].api \notin down THEN regs[i].api
             ELSE ServedFrom(regs, todo \ {i}, down)

Served(regs, down) == ServedFrom(regs, DOMAIN regs, down)

(* ---------------------------- unit conversion -------------------------- *)

\* A decimal number is a coefficient m and a count e of decimals: m / 10^e.
\* A numeric string in plain notation without trailing zeros, as toFixed()
\* writes it, is the decimal with the least e.
Decimal(m, e) == [ m |-> m, e |-> e ]

\* No value computed yet.
Blank == Decimal(-1, 0)

RECURSIVE Pow10(_)
Pow10(k) == IF k = 0 THEN 1 ELSE 10 * Pow10(k - 1)

\* toFixed(): the plain notation of a value, no trailing zeros.
RECURSIVE ToFixed(_)
ToFixed(d) ==
    IF d.e > 0 /\ d.m % 10 = 0 THEN ToFixed(Decimal(d.m \div 10, d.e - 1))
    ELSE d

\* times(new BigNumber(10).exponentiatedBy(k))
TimesPow10(d, k) ==
    IF d.e >= k THEN Decimal(d.m, d.e - k)
    ELSE Decimal(d.m * Pow10(k - d.e), 0)

\* decimalPlaces(dp): rounds half up to dp decimals.
RoundTo(d, dp) ==
    IF d.e <= dp THEN d
    ELSE LET p == Pow10(d.e - dp)
         IN  Decimal((d.m \div p) + (IF 2 * (d.m % p) >= p THEN 1 ELSE 0), dp)

\* dividedBy(new BigNumber(10).exponentiatedBy(k)), to DECIMAL_PLACES.
DivPow10(d, k) == RoundTo(Decimal(d.m, d.e + k), DecimalPlaces)

\* A fromSats that keeps two decimals.
fromSatsToCents(value) ==
    ToFixed(RoundTo(DivPow10(value, SatsExponent), 2))

fromSats(value) == ToFixed(DivPow10(value, SatsExponent))

toSats(value) == ToFixed(RoundTo(TimesPow10(value, SatsExponent), 0))

\* toSats(value) of the amount in whole units or of what fromSats returned.
CallToSats ==
    /\ \/ /\ uSats = Blank
          /\ uSats' = toSats(uX)
          /\ UNCHANGED uNBack
       \/ /\ uUnits # Blank
          /\ uNBack = Blank
          /\ uNBack' = toSats(uUnits)
          /\ UNCHANGED uSats
    /\ UNCHANGED << network, apis, utxoSet, watchVars, lastCall, chainVars,
                    confVars, ctorVars, queryVars, transferVars, handlerVars,
                    stageVars, uX, uBack, uN,
                    uUnits >>

\* fromSats(value) of the amount in the smallest unit or of what toSats
\* returned.
CallFromSats ==
    /\ \/ /\ uUnits = Blank
          /\ uUnits' = fromSats(uN)
          /\ UNCHANGED uBack
       \/ /\ uSats # Blank
          /\ uBack = Blank
          /\ uBack' = fromSats(uSats)
          /\ UNCHANGED uUnits
    /\ UNCHANGED << network, apis, utxoSet, watchVars, lastCall, chainVars,
                    confVars, ctorVars, queryVars, transferVars, handlerVars,
                    stageVars, uX, uSats, uN,
                    uNBack >>

(* ----------------------------- constructor ----------------------------- *)

\* What the constructor's lookup leaves when it finds nothing.
Undefined == [ selector |-> "undefined" ]

\* isBitcoinNetworkConfig(network)
isBitcoinNetworkConfig(input) == input.kind = "config"

\* A lookup that falls back to the testnet entry for an unknown selector.
ResolveWithFallback(input, keys) ==
    IF isBitcoinNetworkConfig(input) THEN input.config
    ELSE IF input.kind = "string" /\ input.selector \in keys
    THEN ConfigMap[input.selector]
    ELSE ConfigMap["testnet"]

\* isBitcoinNetworkConfig(network) ? network : this.configMap[network],
\* the map holding the entries of ConfigMap under the given keys.
ResolveNetwork(input, keys) ==
    IF isBitcoinNetworkConfig(input) THEN input.config
    ELSE IF input.kind = "string" /\ input.selector \in keys
    THEN ConfigMap[input.selector]
    ELSE Undefined

\* The network of an adapter that does not exist.
Unset == [ selector |-> None ]

\* new BitcoinBaseChain(input): throws for an unresolved network, otherwise
\* sets this.network and registers every provider of the config.
Construct ==
    /\ ctor.out = None
    /\ \E input \in NetworkInputs :
          LET networkConfig == ResolveNetwork(input, configMap)
          IN  IF networkConfig = Undefined
              THEN /\ ctor' = [ input |-> input,
                                out |-> IF input.kind = "string"
                                        THEN "UnknownNetwork"
                                        ELSE "InvalidConfig" ]
                   /\ UNCHANGED << network, apis, explicit >>
              ELSE /\ network' = networkConfig
                   /\ apis' = RegisterAll(apis, NumProviders)
                   /\ explicit' = [ i \in 1..NumProviders |-> FALSE ]
                   /\ ctor' = [ input |-> input, out |-> "ok" ]
    /\ UNCHANGED << utxoSet, watchVars, lastCall, chainVars, confVars,
                    configMap, qpc, qTodo, qTried, qResult, unitVars, transferVars,
                    handlerVars, stageVars >>

(* --------------------------- the pool at work -------------------------- *)

\* Priorities a caller may pass to withAPI.
Priorities == -1..1

\* this.withAPI(api, { priority }) or this.withAPI(api) on a constructed
\* adapter, between two queries.
WithAPI ==
    /\ ctor.out = "ok"
    /\ qpc # "trying"
    /\ Len(apis) < NumProviders + MaxExtra
    /\ \/ \E priority \in Priorities :
             /\ apis' = PoolWithAPI(apis, Len(apis) + 1, priority)
             /\ explicit' = Append(explicit, TRUE)
       \/ /\ apis' = withAPI(apis, Len(apis) + 1)
          /\ explicit' = Append(explicit, FALSE)
    /\ UNCHANGED << network, utxoSet, watchVars, lastCall, chainVars, confVars,
                    ctorVars, qpc, qTodo, qTried, qResult, unitVars, transferVars,
                    handlerVars, stageVars >>

\* A query of the pool starts: no registration is tried yet.
QueryStart ==
    /\ ctor.out = "ok"
    /\ qpc # "trying"
    /\ qpc' = "trying"
    /\ qTodo' = DOMAIN apis
    /\ qTried' = << >>
    /\ qResult' = 0
    /\ UNCHANGED << network, apis, utxoSet, watchVars, lastCall, chainVars,
                    confVars, ctorVars, explicit, unitVars, transferVars,
                    handlerVars, stageVars >>

\* The registration tried next answers: the query returns its answer.
QueryAnswer ==
    /\ qpc = "trying"
    /\ qTodo # {}
    /\ LET i == NextTried(apis, qTodo)
       IN  /\ qTried' = Append(qTried, [ api |-> apis[i].api, ok |-> TRUE ])
           /\ qResult' = apis[i].api
           /\ qTodo' = qTodo \ {i}
    /\ qpc' = "done"
    /\ UNCHANGED << network, apis, utxoSet, watchVars, lastCall, chainVars,
                    confVars, ctorVars, explicit, unitVars, transferVars,
                    handlerVars, stageVars >>

\* The registration tried next fails: the query goes on to the next one,
\* and fails when none is left.
QueryFail ==
    /\ qpc = "trying"
    /\ qTodo # {}
    /\ LET i == NextTried(apis, qTodo)
       IN  /\ qTried' = Append(qTried, [ api |-> apis[i].api, ok |-> FALSE ])
           /\ qTodo' = qTodo \ {i}
           /\ qpc' = IF qTodo = {i} THEN "done" ELSE "trying"
    /\ UNCHANGED << network, apis, utxoSet, watchVars, lastCall, chainVars,
                    confVars, ctorVars, explicit, qResult,
                    unitVars, transferVars,
                    handlerVars, stageVars >>

(* ------------------------- guards and validation ----------------------- *)

\* utils.validateAddress(address, asset, network): the address is a
\* well-formed address of that asset on that network variant.
UtilsValidateAddress(address, symbol, net) ==
    address.wellFormed /\ address.asset = symbol /\ address.net = net

validateAddress(address) ==
    UtilsValidateAddress(address, network.nativeAsset,
                         IF network.isTestnet THEN "prod" ELSE "testnet")

assetIsNative(asset) == asset = network.nativeAsset

\* A guard that lets every asset pass.
AssertNothing(asset) == TRUE

\* TRUE when the guard passes, FALSE when it throws.
assertAssetIsSupported(asset) == assetIsNative(asset)

\* fromPayload.chain !== this.chain throws.
PayloadChainOk(chain) == chain = network.selector

\* toURLBase64(fromHex(tx.txid).reverse()): the deposit handed to onDeposit.
ToDeposit(tx) ==
    [ txid |-> Reverse(tx.txid), txindex |-> tx.txindex, amount |-> tx.amount ]

\* fromBase64(transaction.txid).reverse().toString("hex")
transactionHash(transaction) == Reverse(transaction.txid)

\* hash160 of the shard public key.
Hash160(key) == (key * 7 + 3) % 11

\* An address that also depends on how many backends the pool holds.
GatewayAddressOfPool(key, gHash) ==
    << network.p2shPrefix + Len(apis), Hash160(key), gHash >>

\* encodeAddress(createAddressBuffer(hash160(key), gHash, p2shPrefix)).
GatewayAddress(key, gHash) == << network.p2shPrefix, Hash160(key), gHash >>

(* -------------------------- synchronous calls -------------------------- *)

Call(op, asset, chain, address, out, value) ==
    [ op |-> op, asset |-> asset, chain |-> chain, address |-> address,
      out |-> out, value |-> value ]

CallValidateAddress ==
    \E address \in Addresses :
        /\ lastCall' = Call("validateAddress", None, None, address, "ok",
                            validateAddress(address))
        /\ UNCHANGED << network, apis, restVars, utxoSet, watchVars, chainVars, confVars >>

getOutputPayload ==
    \E asset \in Assets, address \in Addresses :
        /\ lastCall' =
             IF ~assertAssetIsSupported(asset)
             THEN Call("getOutputPayload", asset, None, address,
                       "UnsupportedAsset", None)
             ELSE Call("getOutputPayload", asset, None, address, "ok", address)
        /\ UNCHANGED << network, apis, restVars, utxoSet, watchVars, chainVars, confVars >>

getBalance ==
    \E asset \in Assets, address \in Addresses :
        /\ lastCall' =
             IF ~assertAssetIsSupported(asset)
             THEN Call("getBalance", asset, None, address,
                       "UnsupportedAsset", None)
             ELSE IF ~validateAddress(address)
             THEN Call("getBalance", asset, None, address,
                       "InvalidAddress", None)
             ELSE Call("getBalance", asset, None, address, "ok", 0)
        /\ UNCHANGED << network, apis, restVars, utxoSet, watchVars, chainVars, confVars >>

isDepositAsset ==
    \E asset \in Assets :
        /\ lastCall' =
             IF ~assertAssetIsSupported(asset)
             THEN Call("isDepositAsset", asset, None, None,
                       "UnsupportedAsset", None)
             ELSE Call("isDepositAsset", asset, None, None, "ok", TRUE)
        /\ UNCHANGED << network, apis, restVars, utxoSet, watchVars, chainVars, confVars >>

assetDecimals ==
    \E asset \in Assets :
        /\ lastCall' =
             IF ~assertAssetIsSupported(asset)
             THEN Call("assetDecimals", asset, None, None,
                       "UnsupportedAsset", None)
             ELSE Call("assetDecimals", asset, None, None, "ok", AssetDecimals)
        /\ UNCHANGED << network, apis, restVars, utxoSet, watchVars, chainVars, confVars >>

\* A createGatewayAddress call: its arguments and its outcome.
Derivation(asset, chain, key, gHash, out, value) ==
    [ op |-> "createGatewayAddress", asset |-> asset, chain |-> chain,
      address |-> None, key |-> key, gHash |-> gHash, out |-> out,
      value |-> value ]

createGatewayAddress ==
    \E asset \in Assets, chain \in Chains, key \in Keys, gHash \in GHashes :
        /\ lastCall' =
             IF ~PayloadChainOk(chain)
             THEN Derivation(asset, chain, key, gHash, "InvalidPayload", None)
             ELSE IF ~assertAssetIsSupported(asset)
             THEN Derivation(asset, chain, key, gHash, "UnsupportedAsset",
                             None)
             ELSE Derivation(asset, chain, key, gHash, "ok",
                             GatewayAddress(key, gHash))
        /\ UNCHANGED << network, apis, restVars, utxoSet, watchVars, chainVars, confVars >>

(* ------------------------- the chain's own steps ----------------------- *)

\* A new output paying the watched address appears on the chain.
NewOutput(tx) ==
    /\ tx \notin utxoSet
    /\ utxoSet' = utxoSet \cup {tx}
    /\ UNCHANGED << network, apis, restVars, watchVars, lastCall, chainVars, confVars >>

\* Any of the outputs may appear.
AnyNewOutput == \E tx \in Outputs : NewOutput(tx)

\* The caller's predicate listenerCancelled() starts to answer true.
Cancel ==
    /\ ~cancelled
    /\ cancelled' = TRUE
    /\ UNCHANGED << network, apis, restVars, utxoSet, wpc, wargs, werr, attempt, calls, batches,
                    polls, pollTries, txQueries, failedPolls, lateTx, latePolls,
                    lateBatches, lastCall, chainVars, confVars >>

Late == IF cancelled THEN 1 ELSE 0

(* --------------------------- watchForDeposits -------------------------- *)

\* A dispatch that hands the batch to the handler ahead of what was reported
\* before.
DispatchNewestFirst(batch) ==
    /\ calls' = [ i \in DOMAIN batch |-> ToDeposit(batch[i]) ] \o calls
    /\ batches' = Append(batches, batch)
    /\ lateBatches' = lateBatches + Late

\* txs.map(async (tx) => onDeposit({...})): every item of the batch is handed
\* to the handler, in the batch's order.
Dispatch(batch) ==
    /\ calls' = calls \o [ i \in DOMAIN batch |-> ToDeposit(batch[i]) ]
    /\ batches' = Append(batches, batch)
    /\ lateBatches' = lateBatches + Late

\* LoopTop with the predicate consulted only after a first poll (a do-while).
LoopTopCheckAfterPoll ==
    IF cancelled /\ polls > 0
    THEN /\ wpc' = "returned"
         /\ UNCHANGED << polls, latePolls, pollTries >>
    ELSE /\ polls < MaxPolls
         /\ wpc' = "fetchUTXOs"
         /\ polls' = polls + 1
         /\ pollTries' = 1
         /\ latePolls' = latePolls + Late

\* The top of a loop iteration: return when listenerCancelled(), otherwise
\* issue this iteration's fetchUTXOs query.
LoopTop ==
    IF cancelled
    THEN /\ wpc' = "returned"
         /\ UNCHANGED << polls, latePolls, pollTries >>
    ELSE /\ polls < MaxPolls
         /\ wpc' = "fetchUTXOs"
         /\ polls' = polls + 1
         /\ pollTries' = 1
         /\ latePolls' = latePolls + Late

\* The call itself: the payload and asset guards, then the first fetchTXs
\* attempt of tryNTimes.
WatchStart ==
    \E asset \in Assets, chain \in Chains, address \in Addresses :
        /\ wpc = "idle"
        /\ wargs' = [ asset |-> asset, chain |-> chain, address |-> address ]
        /\ IF ~PayloadChainOk(chain)
           THEN /\ wpc' = "threw"
                /\ werr' = "InvalidPayload"
                /\ UNCHANGED << attempt, txQueries, lateTx >>
           ELSE IF ~assertAssetIsSupported(asset)
           THEN /\ wpc' = "threw"
                /\ werr' = "UnsupportedAsset"
                /\ UNCHANGED << attempt, txQueries, lateTx >>
           ELSE /\ wpc' = "fetchTXs"
                /\ attempt' = 1
                /\ txQueries' = txQueries + 1
                /\ lateTx' = lateTx + Late
                /\ UNCHANGED werr
        /\ UNCHANGED << network, apis, restVars, utxoSet, cancelled, calls, batches, polls, pollTries,
                        failedPolls, latePolls, lateBatches, lastCall, chainVars, confVars >>

\* fetchTXs answered: the batch is dispatched and the loop is entered.
FetchTXsOk ==
    /\ wpc = "fetchTXs"
    /\ \E down \in SUBSET ApiIds : Served(apis, down) # 0
    /\ Dispatch(AsList(utxoSet))
    /\ LoopTop
    /\ UNCHANGED << network, apis, restVars, utxoSet, wargs, werr, attempt, cancelled,
                    txQueries, failedPolls, lateTx, lastCall, chainVars, confVars >>

\* fetchTXs failed on every backend and tryNTimes has an attempt left.
FetchTXsRetry ==
    /\ wpc = "fetchTXs"
    /\ \E down \in SUBSET ApiIds : Served(apis, down) = 0
    /\ attempt < TxAttempts
    /\ attempt' = attempt + 1
    /\ txQueries' = txQueries + 1
    /\ lateTx' = lateTx + Late
    /\ UNCHANGED << network, apis, restVars, utxoSet, wpc, wargs, werr, cancelled, calls, batches,
                    polls, pollTries, failedPolls, latePolls, lateBatches, lastCall, chainVars, confVars >>

\* A discovery whose last failure reaches the caller.
FetchTXsGiveUpThrows ==
    /\ wpc = "fetchTXs"
    /\ \E down \in SUBSET ApiIds : Served(apis, down) = 0
    /\ attempt >= TxAttempts
    /\ wpc' = "threw"
    /\ werr' = "ProviderExhausted"
    /\ UNCHANGED << network, apis, restVars, utxoSet, wargs, attempt,
                    cancelled, calls, batches, polls, pollTries, txQueries,
                    failedPolls, lateTx, latePolls, lateBatches, lastCall,
                    chainVars, confVars >>

\* The last attempt failed: the error is ignored and the loop is entered.
FetchTXsGiveUp ==
    /\ wpc = "fetchTXs"
    /\ \E down \in SUBSET ApiIds : Served(apis, down) = 0
    /\ attempt >= TxAttempts
    /\ LoopTop
    /\ UNCHANGED << network, apis, restVars, utxoSet, wargs, werr, attempt, cancelled,
                    calls, batches, txQueries, failedPolls, lateTx, lateBatches,
                    lastCall, chainVars, confVars >>

\* A poll whose answer is dropped: nothing is handed to the handler.
FetchUTXOsOkUnreported ==
    /\ wpc = "fetchUTXOs"
    /\ \E down \in SUBSET ApiIds : Served(apis, down) # 0
    /\ wpc' = "sleep"
    /\ UNCHANGED << network, apis, restVars, utxoSet, wargs, werr, attempt,
                    cancelled, calls, batches, polls, pollTries, txQueries,
                    failedPolls, lateTx, latePolls, lateBatches, lastCall,
                    chainVars, confVars >>

\* fetchUTXOs answered: the batch is dispatched, then the sleep starts.
FetchUTXOsOk ==
    /\ wpc = "fetchUTXOs"
    /\ \E down \in SUBSET ApiIds : Served(apis, down) # 0
    /\ Dispatch(AsList(utxoSet))
    /\ wpc' = "sleep"
    /\ UNCHANGED << network, apis, restVars, utxoSet, wargs, werr, attempt, cancelled,
                    polls, pollTries, txQueries, failedPolls, lateTx, latePolls,
                    lastCall, chainVars, confVars >>

\* A catch that rethrows instead of logging.
RethrowFailedPoll == "threw"

\* What the catch of a failed poll leaves the watcher doing.
AfterFailedPoll == "sleep"

\* fetchUTXOs failed on every backend: console.error, then the sleep starts.
FetchUTXOsFail ==
    /\ wpc = "fetchUTXOs"
    /\ \E down \in SUBSET ApiIds : Served(apis, down) = 0
    /\ failedPolls' = failedPolls + 1
    /\ wpc' = AfterFailedPoll
    /\ werr' = IF AfterFailedPoll = "threw" THEN "ProviderExhausted" ELSE werr
    /\ UNCHANGED << network, apis, restVars, utxoSet, wargs, attempt, cancelled, calls, batches,
                    polls, pollTries, txQueries, lateTx, latePolls, lateBatches,
                    lastCall, chainVars, confVars >>

\* The caller's onDeposit throws for the deposit of TxA before its first
\* await; for every other deposit it returns a promise that settles later.
HandlerThrows(deposit) == deposit = ToDeposit(TxA)

\* The invocations whose promise is still pending.
Running ==
    { i \in DOMAIN calls :
          ~HandlerThrows(calls[i]) /\ i \notin resolved \cup rejected }

\* The promise of a running onDeposit invocation resolves or rejects. Nothing
\* awaits it: the async arrow's promise is dropped by map.
HandlerSettles ==
    /\ \E i \in Running :
          \/ resolved' = resolved \cup {i} /\ UNCHANGED rejected
          \/ rejected' = rejected \cup {i} /\ UNCHANGED resolved
    /\ UNCHANGED << network, apis, utxoSet, watchVars, lastCall, chainVars,
                    confVars, ctorVars, queryVars, unitVars, transferVars,
                    stageVars >>

\* A sleep that is followed by awaiting every handler invocation made so far.
SleepDoneAfterHandlers ==
    /\ wpc = "sleep"
    /\ Running = {}
    /\ LoopTop
    /\ UNCHANGED << network, apis, restVars, utxoSet, wargs, werr, attempt,
                    cancelled, calls, batches, txQueries, failedPolls, lateTx,
                    lateBatches, lastCall, chainVars, confVars >>

\* sleep(15 * SECONDS) is over: the next iteration starts.
SleepDone ==
    /\ wpc = "sleep"
    /\ LoopTop
    /\ UNCHANGED << network, apis, restVars, utxoSet, wargs, werr, attempt, cancelled,
                    calls, batches, txQueries, failedPolls, lateTx, lateBatches,
                    lastCall, chainVars, confVars >>

(* ------------------------- confirmations: chain ------------------------ *)

\* A block that does not hold TxA is mined.
NewBlock ==
    /\ height < MaxHeight
    /\ height' = height + 1
    /\ UNCHANGED << network, apis, restVars, utxoSet, watchVars, lastCall, minedAt,
                    confVars >>

\* A block that holds TxA is mined.
MineTx ==
    /\ TxA \in utxoSet
    /\ minedAt = << >>
    /\ height < MaxHeight
    /\ height' = height + 1
    /\ minedAt' = << height + 1 >>
    /\ UNCHANGED << network, apis, restVars, utxoSet, watchVars, lastCall, confVars >>

\* The outputs a provider finds for fetchUTXO(txid, txindex).
Lookup(txid, txindex) ==
    { tx \in utxoSet : tx.txid = txid /\ tx.txindex = txindex }

\* The height a provider reports for an output: none while it is not mined.
ReportedHeight(tx) == IF tx = TxA THEN minedAt ELSE << >>

(* ------------------------ transactionConfidence ------------------------ *)

\* JavaScript's !height for a height that is null or a number.
Falsy(h) == h = << >> \/ h = << 0 >>

\* The depth with the operands of the subtraction exchanged.
DepthSwapped(h, latestHeight) == h[1] - latestHeight + 1

\* The depth without the block of inclusion.
DepthWithoutInclusion(h, latestHeight) == latestHeight - h[1]

\* latestHeight.minus(height).plus(1)
Depth(h, latestHeight) == latestHeight - h[1] + 1

Conf(tx, out, value, utxo, includedAt, heightQuery, latest, utxoBy, heightBy) ==
    [ tx |-> tx, out |-> out, value |-> value, utxo |-> utxo,
      includedAt |-> includedAt, heightQuery |-> heightQuery,
      latest |-> latest, utxoBy |-> utxoBy, heightBy |-> heightBy ]

\* The call: fetchUTXO(transactionHash(transaction), txindex) is issued.
ConfStart ==
    \E tx \in { ToDeposit(TxA), ToDeposit(TxC) } :
        /\ tcpc = "idle"
        /\ confCalls < MaxCalls
        /\ confCalls' = confCalls + 1
        /\ tcpc' = "fetchUTXO"
        /\ tcTx' = tx
        /\ UNCHANGED << network, apis, restVars, utxoSet, watchVars, lastCall, chainVars,
                        tcHeight, tcBy, lastConf, depths >>

\* fetchUTXO fails: every backend is down, or none knows the output. The
\* rejection is not caught.
FetchUTXOFail ==
    /\ tcpc = "fetchUTXO"
    /\ \E down \in SUBSET ApiIds :
          /\ \/ Served(apis, down) = 0
             \/ Lookup(transactionHash(tcTx), tcTx.txindex) = {}
          /\ lastConf' =
               Conf(tcTx, "err", 0,
                    IF Served(apis, down) = 0 THEN "failed" ELSE "notFound",
                    0, "none", 0, Served(apis, down), 0)
    /\ tcpc' = "idle"
    /\ UNCHANGED << network, apis, restVars, utxoSet, watchVars, lastCall, chainVars,
                    tcTx, tcHeight, tcBy, confCalls, depths >>

\* fetchUTXO answers with a height that is falsy: the depth is 0.
FetchUTXOUnmined ==
    /\ tcpc = "fetchUTXO"
    /\ \E down \in SUBSET ApiIds,
          tx \in Lookup(transactionHash(tcTx), tcTx.txindex) :
          /\ Served(apis, down) # 0
          /\ Falsy(ReportedHeight(tx))
          /\ lastConf' = Conf(tcTx, "ok", 0, "unmined", 0, "none", 0,
                              Served(apis, down), 0)
    /\ depths' = Append(depths, [ tx |-> tcTx, depth |-> 0 ])
    /\ tcpc' = "idle"
    /\ UNCHANGED << network, apis, restVars, utxoSet, watchVars, lastCall, chainVars,
                    tcTx, tcHeight, tcBy, confCalls >>

\* fetchUTXO answers with the height of the output's block: fetchHeight is
\* issued.
FetchUTXOMined ==
    /\ tcpc = "fetchUTXO"
    /\ \E down \in SUBSET ApiIds,
          tx \in Lookup(transactionHash(tcTx), tcTx.txindex) :
          /\ Served(apis, down) # 0
          /\ ~Falsy(ReportedHeight(tx))
          /\ tcHeight' = ReportedHeight(tx)
          /\ tcBy' = Served(apis, down)
    /\ tcpc' = "fetchHeight"
    /\ UNCHANGED << network, apis, restVars, utxoSet, watchVars, lastCall, chainVars,
                    tcTx, confCalls, lastConf, depths >>

\* fetchHeight answers: the depth is returned.
FetchHeightOk ==
    /\ tcpc = "fetchHeight"
    /\ \E down \in SUBSET ApiIds :
          /\ Served(apis, down) # 0
          /\ lastConf' = Conf(tcTx, "ok", Depth(tcHeight, height), "mined",
                              tcHeight[1], "ok", height, tcBy,
                              Served(apis, down))
    /\ depths' = Append(depths, [ tx |-> tcTx,
                                  depth |-> Depth(tcHeight, height) ])
    /\ tcpc' = "idle"
    /\ UNCHANGED << network, apis, restVars, utxoSet, watchVars, lastCall, chainVars,
                    tcTx, tcHeight, tcBy, confCalls >>

\* A failed height lookup answered with depth 0.
HeightUnavailableAsZero == [ out |-> "ok", value |-> 0 ]

\* What a failed height lookup makes of the call: the rejection of
\* await this.api.fetchHeight() is not caught.
HeightUnavailable == [ out |-> "err", value |-> 0 ]

\* fetchHeight fails on every backend.
FetchHeightFail ==
    /\ tcpc = "fetchHeight"
    /\ \E down \in SUBSET ApiIds : Served(apis, down) = 0
    /\ lastConf' = Conf(tcTx, HeightUnavailable.out, HeightUnavailable.value,
                        "mined", tcHeight[1], "failed", 0, tcBy, 0)
    /\ depths' = IF HeightUnavailable.out = "ok"
                 THEN Append(depths, [ tx |-> tcTx,
                                       depth |-> HeightUnavailable.value ])
                 ELSE depths
    /\ tcpc' = "idle"
    /\ UNCHANGED << network, apis, restVars, utxoSet, watchVars, lastCall, chainVars,
                    tcTx, tcHeight, tcBy, confCalls >>

(* -------------------------- gateway orchestrator ----------------------- *)

\* The confirmation depth the chain requires before submission.
Threshold == 3

\* The states after DepositConfirming on the way to Released.
Submitted == {"SubmittedToSigner", "SignedAwaitingRelease", "Released"}

\* Submission as soon as the deposit is mined.
ReadyOnceMined(depth) == depth >= 1

\* Confirmation depth has reached the required threshold.
ReadyToSubmit(depth) == depth >= Threshold

\* AddressDerived -> AwaitingDeposit: the gateway address is derived.
TransferDeriveAddress ==
    /\ tState = "AddressDerived"
    /\ tState' = "AwaitingDeposit"
    /\ UNCHANGED << network, apis, utxoSet, watchVars, lastCall, chainVars,
                    confVars, ctorVars, queryVars, unitVars, handlerVars,
                    stageVars, tDepth >>

\* AwaitingDeposit -> DepositConfirming: the watcher reports the deposit.
TransferOnDeposit ==
    /\ tState = "AwaitingDeposit"
    /\ TxA \in utxoSet
    /\ tState' = "DepositConfirming"
    /\ UNCHANGED << network, apis, utxoSet, watchVars, lastCall, chainVars,
                    confVars, ctorVars, queryVars, unitVars, handlerVars,
                    stageVars, tDepth >>

\* While confirming, the orchestrator asks for the deposit's depth.
TransferObserveDepth ==
    /\ tState = "DepositConfirming"
    /\ tDepth' = IF Falsy(ReportedHeight(TxA)) THEN 0
                 ELSE Depth(ReportedHeight(TxA), height)
    /\ UNCHANGED << network, apis, utxoSet, watchVars, lastCall, chainVars,
                    confVars, ctorVars, queryVars, unitVars, handlerVars,
                    stageVars, tState >>

\* DepositConfirming -> SubmittedToSigner.
TransferSubmit ==
    /\ tState = "DepositConfirming"
    /\ ReadyToSubmit(tDepth)
    /\ tState' = "SubmittedToSigner"
    /\ UNCHANGED << network, apis, utxoSet, watchVars, lastCall, chainVars,
                    confVars, ctorVars, queryVars, unitVars, handlerVars,
                    stageVars, tDepth >>

\* SubmittedToSigner -> SignedAwaitingRelease: the signature arrives.
TransferSigned ==
    /\ tState = "SubmittedToSigner"
    /\ tState' = "SignedAwaitingRelease"
    /\ UNCHANGED << network, apis, utxoSet, watchVars, lastCall, chainVars,
                    confVars, ctorVars, queryVars, unitVars, handlerVars,
                    stageVars, tDepth >>

\* SignedAwaitingRelease -> Released: submitRelease returns.
TransferReleased ==
    /\ tState = "SignedAwaitingRelease"
    /\ tState' = "Released"
    /\ UNCHANGED << network, apis, utxoSet, watchVars, lastCall, chainVars,
                    confVars, ctorVars, queryVars, unitVars, handlerVars,
                    stageVars, tDepth >>

\* Any step -> Failed on an unrecoverable error.
TransferFailed ==
    /\ tState \notin {"Released", "Failed"}
    /\ tState' = "Failed"
    /\ UNCHANGED << network, apis, utxoSet, watchVars, lastCall, chainVars,
                    confVars, ctorVars, queryVars, unitVars, handlerVars,
                    stageVars, tDepth >>

(* --------------------- the TestEnvironment component ------------------- *)

\* The stages in the order of the component's buttons.
StageCycle ==
    << "ready", "confirming", "confirmed", "renvm-signed", "submit-to-eth",
       "eth-confirmed" >>

\* The stage the switch of nextStage sets for the stage it was entered in.
NextStageOf(s) ==
    LET i == CHOOSE k \in DOMAIN StageCycle : StageCycle[k] = s
    IN  StageCycle[(i % Len(StageCycle)) + 1]

\* setStage(value)
SetStage(value) ==
    /\ stage' = value
    /\ trail' = Append(trail, value)

\* A click on the one enabled button: nextStage runs its switch on the
\* rendered stage up to the first await. In "ready" it sets "confirming"
\* and awaits startSwap; in every other stage it sets the next stage.
ClickNextStage ==
    /\ Len(trail) < MaxSets
    /\ SetStage(NextStageOf(stage))
    /\ pending' = IF stage = "ready" THEN pending + 1 ELSE pending
    /\ UNCHANGED << network, apis, utxoSet, watchVars, lastCall, chainVars,
                    confVars, ctorVars, queryVars, unitVars, transferVars,
                    handlerVars >>

\* gw.open resolves: the "ready" case, which has no break, falls through
\* into the "confirming" case and sets "confirmed".
StartSwapResolves ==
    /\ pending > 0
    /\ Len(trail) < MaxSets
    /\ pending' = pending - 1
    /\ SetStage("confirmed")
    /\ UNCHANGED << network, apis, utxoSet, watchVars, lastCall, chainVars,
                    confVars, ctorVars, queryVars, unitVars, transferVars,
                    handlerVars >>

\* gw.open rejects: the error is logged by catch(console.error).
StartSwapRejects ==
    /\ pending > 0
    /\ pending' = pending - 1
    /\ UNCHANGED << network, apis, utxoSet, watchVars, lastCall, chainVars,
                    confVars, ctorVars, queryVars, unitVars, transferVars,
                    handlerVars, stage, trail >>

(* ---------------------------- specification ---------------------------- *)

\* Nothing called yet, the watched address holding the outputs in onChain.
Idle(onChain) ==
    /\ utxoSet = onChain
    /\ wpc = "idle"
    /\ wargs = [ asset |-> None, chain |-> None, address |-> None ]
    /\ werr = None
    /\ attempt = 0
    /\ cancelled = FALSE
    /\ calls = << >>
    /\ polls = 0
    /\ txQueries = 0
    /\ failedPolls = 0
    /\ lateTx = 0
    /\ latePolls = 0
    /\ lateBatches = 0
    /\ pollTries = 0
    /\ batches = << >>
    /\ lastCall = Call(None, None, None, None, None, None)
    /\ height = 0
    /\ minedAt = << >>
    /\ tcpc = "idle"
    /\ tcTx = ToDeposit(TxA)
    /\ tcHeight = << >>
    /\ tcBy = 0
    /\ confCalls = 0
    /\ lastConf = Conf(None, None, 0, None, 0, "none", 0, 0, 0)
    /\ depths = << >>
    /\ qpc = "idle"
    /\ qTodo = {}
    /\ qTried = << >>
    /\ qResult = 0
    /\ uSats = Blank
    /\ uBack = Blank
    /\ uUnits = Blank
    /\ uNBack = Blank
    /\ tState = "AddressDerived"
    /\ tDepth = 0
    /\ resolved = {}
    /\ rejected = {}
    /\ stage = "ready"
    /\ pending = 0
    /\ trail = << "ready" >>

\* No amount at hand to convert.
NoAmounts ==
    /\ uX = Decimal(0, 0)
    /\ uN = Decimal(0, 0)

\* The state after new BitcoinBaseChain(network).
Constructed ==
    /\ network \in { ConfigMap[n] : n \in Networks }
    /\ apis = RegisterAll(<< >>, NumProviders)
    /\ explicit = [ i \in 1..NumProviders |-> FALSE ]
    /\ configMap = Networks
    /\ ctor = [ input |-> NetworkInput("config", None, network),
                out |-> "ok" ]

\* The state after construction, the watched address holding the outputs in
\* onChain.
InitWith(onChain) ==
    /\ Constructed
    /\ NoAmounts
    /\ Idle(onChain)

Init == InitWith({})

\* The chain's and the caller's own steps.
Environment ==
    \/ AnyNewOutput
    \/ Cancel

\* One watch session.
Watcher ==
    \/ WatchStart
    \/ FetchTXsOk
    \/ FetchTXsRetry
    \/ FetchTXsGiveUp
    \/ FetchUTXOsOk
    \/ FetchUTXOsFail
    \/ SleepDone

\* The adapter's synchronous methods.
Methods ==
    \/ CallValidateAddress
    \/ getOutputPayload
    \/ getBalance
    \/ isDepositAsset
    \/ assetDecimals
    \/ createGatewayAddress

\* A watch session on a chain that grows and a caller that may cancel.
Next == Environment \/ Watcher

Spec == Init /\ [][Next]_vars

\* Every call of the adapter that takes an asset or an address, the watch
\* session included, against the outputs already on the chain.
InitCalls == \E onChain \in SUBSET Outputs : InitWith(onChain)

NextCalls == Methods \/ Watcher

SpecCalls == InitCalls /\ [][NextCalls]_vars

\* Successive transactionConfidence calls while TxA is broadcast and mined
\* and the chain grows.
transactionConfidence ==
    \/ ConfStart
    \/ FetchUTXOFail
    \/ FetchUTXOUnmined
    \/ FetchUTXOMined
    \/ FetchHeightOk
    \/ FetchHeightFail

NextConf ==
    \/ NewOutput(TxA)
    \/ NewBlock
    \/ MineTx
    \/ transactionConfidence

SpecConf == Init /\ [][NextConf]_vars

\* Construction, later registrations and queries of the pool of one adapter.
InitPool ==
    /\ network = Unset
    /\ apis = << >>
    /\ explicit = << >>
    /\ configMap \in { {}, Networks }
    /\ ctor = [ input |-> NetworkInput(None, None, NoConfig), out |-> None ]
    /\ NoAmounts
    /\ Idle({})

PoolQuery ==
    \/ QueryStart
    \/ QueryAnswer
    \/ QueryFail

NextPool ==
    \/ Construct
    \/ WithAPI
    \/ PoolQuery

SpecPool == InitPool /\ [][NextPool]_vars

\* Gateway address derivations of a constructed adapter between
\* registrations and queries of its pool.
NextDerive ==
    \/ WithAPI
    \/ PoolQuery
    \/ createGatewayAddress

SpecDerive == Init /\ [][NextDerive]_vars

\* Amounts a caller may hand to toSats: up to one decimal more than the
\* smallest unit has, written with or without trailing zeros, and the
\* amount 0.12345678.
Amounts ==
    { Decimal(m, e) : m \in 0..MaxMantissa, e \in 0..(SatsExponent + 1) }
    \cup { Decimal(12345678, SatsExponent) }

\* toSats and fromSats applied to an amount and to each other's result.
InitSats ==
    /\ Constructed
    /\ uX \in Amounts
    /\ uN \in { Decimal(n, 0) : n \in 0..MaxMantissa }
    /\ Idle({})

NextSats == CallToSats \/ CallFromSats

SpecSats == InitSats /\ [][NextSats]_vars

\* A watch session that is never cancelled, on a pool whose fetchUTXOs keeps
\* succeeding from time to time: within the polls of the model, the last one
\* does not fail, and outputs appear while a poll is still to be issued.
\* The runtime settles every query and fires the sleep's timer.
Settles ==
    \/ FetchTXsOk
    \/ FetchTXsRetry
    \/ FetchTXsGiveUp
    \/ FetchUTXOsOk
    \/ (polls < MaxPolls /\ FetchUTXOsFail)
    \/ SleepDone

NextLive ==
    \/ (polls < MaxPolls /\ AnyNewOutput)
    \/ WatchStart
    \/ Settles

SpecLive == InitCalls /\ [][NextLive]_vars /\ WF_vars(Settles)

\* A watch session on an address holding TxA and TxB, never cancelled, and
\* the promises of its handler invocations.
NextHandlers == Watcher \/ HandlerSettles

SpecHandlers == InitWith({TxA, TxB}) /\ [][NextHandlers]_vars

\* Button clicks of the TestEnvironment component and the completions of
\* the startSwap calls they started.
NextStage ==
    \/ ClickNextStage
    \/ StartSwapResolves
    \/ StartSwapRejects

SpecStage == Init /\ [][NextStage]_vars

\* One transfer while its deposit is broadcast and mined and the chain
\* grows.
Orchestrator ==
    \/ TransferDeriveAddress
    \/ TransferOnDeposit
    \/ TransferObserveDepth
    \/ TransferSubmit
    \/ TransferSigned
    \/ TransferReleased
    \/ TransferFailed

NextTransfer ==
    \/ NewOutput(TxA)
    \/ NewBlock
    \/ MineTx
    \/ Orchestrator

SpecTransfer == Init /\ [][NextTransfer]_vars

(* ------------------------------ properties ----------------------------- *)

\* The (txid, txindex) a deposit is identified by.
DepositKey(d) == << d.txid, d.txindex >>

\* How often the handler was invoked for the output tx.
Invocations(tx) ==
    Count(DepositKey(ToDeposit(tx)),
          [ i \in DOMAIN calls |-> DepositKey(calls[i]) ])

\* C1: within one watch session onDeposit is invoked at most once for every
\* (txid, txindex), whatever the initial batch and the polls return.
C1_HandlerOncePerDeposit ==
    \A tx \in Outputs : Invocations(tx) <= 1

InLoop == {"fetchUTXOs", "sleep"}

\* C2: once in the polling loop, the watcher leaves it only by returning from
\* a top-of-iteration check that found listenerCancelled() true; a failed
\* poll is followed by the sleep and throws nothing.
C2_LoopEndsOnlyOnCancel ==
    [][ /\ (wpc \in InLoop => wpc' \in InLoop \cup {"returned"})
        /\ (wpc' = "returned" /\ wpc # "returned" =>
               cancelled /\ wpc \in {"fetchTXs", "sleep"})
        /\ (failedPolls' # failedPolls => wpc' = "sleep" /\ werr' = werr)
      ]_vars

\* C2 witness: the loop went through two failed polls and then returned.
C2_Witness ==
    /\ failedPolls >= 2
    /\ wpc = "returned"
    /\ werr = None

\* C3 as stated: after listenerCancelled() turned true no provider query is
\* issued any more and at most one batch is dispatched.
C3_NoQueryAfterCancel ==
    /\ lateTx = 0
    /\ latePolls = 0
    /\ lateBatches <= 1

\* C3, amended: once listenerCancelled() is true, no fetchUTXOs query is
\* issued, at most the fetchTXs attempts of the initial discovery are, at
\* most one batch is dispatched, the next top-of-iteration check returns,
\* and after the return nothing is queried or dispatched.
C3_CancelLatency ==
    /\ [](latePolls = 0 /\ lateTx <= TxAttempts /\ lateBatches <= 1)
    /\ [][ /\ (cancelled /\ wpc \in {"fetchTXs", "sleep"} /\ wpc' # wpc =>
                  wpc' = "returned")
           /\ (wpc = "returned" =>
                  UNCHANGED << wpc, calls, polls, txQueries >>)
         ]_vars

\* C3 witness: the predicate turned true while a poll was in flight; that
\* poll's batch was dispatched and the watcher returned.
C3_Witness ==
    /\ wpc = "returned"
    /\ polls >= 1
    /\ lateTx = 0
    /\ lateBatches = 1
    /\ calls # << >>

\* C4: a call that finds the transaction mined returns the current height
\* minus the height of its block plus 1 (mined at 100, height 105: depth 6),
\* and a call that finds it not yet mined returns 0.
C4_DepthIsHeightDifferencePlusOne ==
    /\ lastConf.utxo = "unmined" => lastConf.out = "ok" /\ lastConf.value = 0
    /\ lastConf.utxo = "mined" /\ lastConf.heightQuery = "ok" =>
          /\ lastConf.out = "ok"
          /\ minedAt # << >>
          /\ lastConf.value = lastConf.latest - minedAt[1] + 1
    /\ lastConf.out = "ok" => lastConf.utxo \in {"unmined", "mined"}
    /\ Depth(<< 100 >>, 105) = 6

\* C4 witness: a first call found TxA unmined and returned 0, a later one
\* found it mined in block 2 at height 5 and returned 4.
C4_Witness ==
    /\ Len(depths) >= 2
    /\ depths[1].depth = 0
    /\ lastConf.out = "ok"
    /\ lastConf.utxo = "mined"
    /\ lastConf.includedAt = 2
    /\ lastConf.latest = 5
    /\ lastConf.value = 4

\* C5: a call whose height lookup failed fails, and a call that returns 0
\* found the transaction not yet mined.
C5_HeightFailureIsAnError ==
    /\ lastConf.heightQuery = "failed" => lastConf.out = "err"
    /\ lastConf.out = "ok" /\ lastConf.value = 0 =>
          lastConf.utxo = "unmined" /\ lastConf.heightQuery = "none"

\* C5 witness: TxA was found mined, the height lookup failed, the call failed.
C5_Witness ==
    /\ lastConf.utxo = "mined"
    /\ lastConf.heightQuery = "failed"
    /\ lastConf.out = "err"
    /\ lastConf.utxoBy # 0

\* C6: a call about an output no provider knows returns 0.
C6_UnknownGivesZero ==
    lastConf.utxo = "notFound" => lastConf.out = "ok" /\ lastConf.value = 0

\* C7: the depths successive successful calls return for one transaction
\* never decrease while the chain only grows.
C7_DepthNeverDecreases ==
    \A i, j \in DOMAIN depths :
        i < j /\ depths[i].tx = depths[j].tx =>
            depths[i].depth <= depths[j].depth

\* C7 witness: TxA mined in block 1 and asked about at heights 2, 2, 3, 5
\* gave 2, 2, 3, 5, the last call answered by two different backends.
C7_Witness ==
    /\ minedAt = << 1 >>
    /\ Len(depths) = 4
    /\ depths[1].depth = 2
    /\ depths[2].depth = 2
    /\ depths[3].depth = 3
    /\ depths[4].depth = 5
    /\ lastConf.utxoBy # lastConf.heightBy
    /\ lastConf.heightBy # 0

\* The network variant the adapter was constructed for.
OwnVariant == IF network.isTestnet THEN "testnet" ELSE "prod"

\* C8: validateAddress accepts exactly the well-formed addresses of the
\* adapter's own network variant.
C8_OwnNetworkVariantOnly ==
    lastCall.op = "validateAddress" =>
        lastCall.value =
            (lastCall.address.wellFormed /\ lastCall.address.net = OwnVariant)

\* The methods that take an asset, and those that check fromPayload first.
AssetMethods ==
    { "getOutputPayload", "getBalance", "isDepositAsset", "assetDecimals",
      "createGatewayAddress" }

\* The watch session was called with an asset that is not the native one.
WatchedForeignAsset == wpc # "idle" /\ wargs.asset # network.nativeAsset

\* The last method call was made with an asset that is not the native one.
CalledForeignAsset ==
    lastCall.op \in AssetMethods /\ lastCall.asset # network.nativeAsset

\* C9 as stated: every asset-taking call with a foreign asset fails with the
\* unsupported-asset error.
C9_UnsupportedAssetError ==
    /\ CalledForeignAsset => lastCall.out = "UnsupportedAsset"
    /\ WatchedForeignAsset => wpc = "threw" /\ werr = "UnsupportedAsset"

\* C9, amended: every asset-taking call with a foreign asset fails and does
\* nothing else (no provider query, no handler invocation, nothing
\* returned); the error is the unsupported-asset error, except that
\* watchForDeposits and createGatewayAddress fail with the invalid-payload
\* error when fromPayload.chain is not the adapter's chain either.
C9_ForeignAssetFails ==
    /\ CalledForeignAsset =>
          lastCall.out =
              IF lastCall.op = "createGatewayAddress"
                 /\ lastCall.chain # network.selector
              THEN "InvalidPayload" ELSE "UnsupportedAsset"
    /\ WatchedForeignAsset =>
          /\ wpc = "threw"
          /\ werr = IF wargs.chain # network.selector
                    THEN "InvalidPayload" ELSE "UnsupportedAsset"
          /\ txQueries = 0
          /\ polls = 0
          /\ calls = << >>

\* C9 witness: createGatewayAddress and watchForDeposits were both called
\* for the adapter's chain with a foreign asset and threw.
C9_Witness ==
    /\ lastCall.op = "createGatewayAddress"
    /\ lastCall.asset = "ETH"
    /\ lastCall.chain = network.selector
    /\ lastCall.out = "UnsupportedAsset"
    /\ wpc = "threw"
    /\ wargs.asset = "ETH"
    /\ wargs.chain = network.selector
    /\ werr = "UnsupportedAsset"
    /\ utxoSet # {}

\* C10: a call given an address that fails validateAddress fails with the
\* invalid-address error before any provider is queried.
C10_InvalidAddressFailsFirst ==
    /\ lastCall.op = "getBalance" /\ lastCall.asset = network.nativeAsset
       /\ ~validateAddress(lastCall.address) =>
          lastCall.out = "InvalidAddress"
    /\ wpc # "idle" /\ ~validateAddress(wargs.address) =>
          wpc = "threw" /\ txQueries = 0

\* The backends registered in the pool.
Registered == { apis[i].api : i \in DOMAIN apis }

\* C11: constructing with a selector succeeds exactly when the selector is a
\* key of configMap, and then this.network is that entry and every provider
\* of it is registered; an unknown selector fails with the unknown-network
\* error, any other value that is no network config with the invalid-config
\* error; an adapter that exists has its network set, and a failed
\* construction leaves no adapter.
C11_ConstructorResolves ==
    /\ ctor.out # None /\ ctor.input.kind = "string" =>
           /\ ctor.out = "ok" <=> ctor.input.selector \in configMap
           /\ ctor.out = "ok" => network = ConfigMap[ctor.input.selector]
           /\ ctor.out # "ok" => ctor.out = "UnknownNetwork"
    /\ ctor.out # None /\ ctor.input.kind = "other" =>
           ctor.out = "InvalidConfig"
    /\ ctor.out = "ok" =>
           /\ network \in { ConfigMap[n] : n \in Networks }
           /\ ApiIds \subseteq Registered
    /\ ctor.out # "ok" => network = Unset /\ apis = << >>

\* C11 witness: a known selector gave an adapter of that entry with its
\* providers registered.
C11_Witness ==
    /\ ctor.out = "ok"
    /\ ctor.input.kind = "string"
    /\ ctor.input.selector = "testnet"
    /\ network = ConfigMap["testnet"]
    /\ Registered = ApiIds

\* Position at which the query tried a backend, 0 while it has not.
TriedAt(api) ==
    IF \E a \in DOMAIN qTried : qTried[a].api = api
    THEN CHOOSE a \in DOMAIN qTried : qTried[a].api = api
    ELSE 0

\* The registrations the query in qTried was started on.
Covered == { i \in DOMAIN apis : i \in qTodo \/ TriedAt(apis[i].api) > 0 }

\* C12 as stated: a backend registered without an explicit priority is tried
\* only after every backend registered with an explicit priority.
C12_DefaultTriedLast ==
    \A d, e \in Covered :
        ~explicit[d] /\ explicit[e] /\ TriedAt(apis[d].api) > 0 =>
            /\ TriedAt(apis[e].api) > 0
            /\ TriedAt(apis[e].api) < TriedAt(apis[d].api)

\* C12, amended: a backend registered without an explicit priority has
\* priority 0; a query tries it after every backend of a priority below 0
\* and after the priority-0 backends registered before it, and before every
\* backend of a priority above 0 and the priority-0 backends registered
\* after it.
C12_DefaultIsPriorityZero ==
    \A d \in DOMAIN apis :
        ~explicit[d] =>
            /\ apis[d].priority = 0
            /\ \A j \in Covered \ {d} :
                   TriedAt(apis[d].api) > 0 =>
                       IF \/ apis[j].priority < 0
                          \/ apis[j].priority = 0 /\ j < d
                       THEN /\ TriedAt(apis[j].api) > 0
                            /\ TriedAt(apis[j].api) < TriedAt(apis[d].api)
                       ELSE \/ TriedAt(apis[j].api) = 0
                            \/ TriedAt(apis[j].api) > TriedAt(apis[d].api)

\* C12 witness: with backend 3 registered at priority -1 and backend 4 at
\* priority 1, a query that every backend failed tried 3, then the
\* constructor's backends, then 4.
C12_Witness ==
    /\ qpc = "done"
    /\ explicit = << FALSE, FALSE, TRUE, TRUE >>
    /\ [ a \in DOMAIN qTried |-> qTried[a].api ] = << 3, 1, 2, 4 >>

\* The registration of a backend.
PosOf(api) == CHOOSE i \in DOMAIN apis : apis[i].api = api

\* The backends the query found failing.
FailedBackends == { qTried[a].api : a \in { b \in DOMAIN qTried : ~qTried[b].ok } }

\* C13: a pool query tries the backends in ascending order of priority value,
\* ties in registration order, each one only after all before it failed; it
\* returns the answer of the first that succeeds, with no error, and fails
\* only when every backend failed.
C13_FirstSuccessInPriorityOrder ==
    /\ \A a, b \in DOMAIN qTried :
           a < b =>
               /\ ~qTried[a].ok
               /\ \/ apis[PosOf(qTried[a].api)].priority
                         < apis[PosOf(qTried[b].api)].priority
                  \/ /\ apis[PosOf(qTried[a].api)].priority
                           = apis[PosOf(qTried[b].api)].priority
                     /\ PosOf(qTried[a].api) < PosOf(qTried[b].api)
    /\ \A a \in DOMAIN qTried, j \in qTodo :
           \/ apis[PosOf(qTried[a].api)].priority < apis[j].priority
           \/ /\ apis[PosOf(qTried[a].api)].priority = apis[j].priority
              /\ PosOf(qTried[a].api) < j
    /\ qpc = "done" /\ qResult # 0 =>
           /\ qTried[Len(qTried)].ok
           /\ qTried[Len(qTried)].api = qResult
    /\ qpc = "done" /\ qResult = 0 =>
           /\ qTodo = {}
           /\ \A a \in DOMAIN qTried : ~qTried[a].ok
    /\ qpc = "done" /\ Covered = DOMAIN apis =>
           qResult = Served(apis, FailedBackends)

\* C13 witness: the priority-0 backends failed and the backend registered
\* at priority 1 answered; the query returned its answer.
C13_Witness ==
    /\ qpc = "done"
    /\ Len(apis) = 3
    /\ apis[3].priority = 1
    /\ qTried = << [ api |-> 1, ok |-> FALSE ], [ api |-> 2, ok |-> FALSE ],
                   [ api |-> 3, ok |-> TRUE ] >>
    /\ qResult = 3

\* C14: the address createGatewayAddress returns depends on the key, the
\* gateway hash and the network config alone: an address it returned is the
\* one it would return for the same arguments in every later state, and no
\* step of any operation changes the address of any arguments.
C14_SameInputsSameAddress ==
    /\ [](lastCall.op = "createGatewayAddress" /\ lastCall.out = "ok" =>
             lastCall.value = GatewayAddress(lastCall.key, lastCall.gHash))
    /\ [][ \A key \in Keys, gHash \in GHashes :
               GatewayAddress(key, gHash)' = GatewayAddress(key, gHash)
         ]_vars

\* C14 witness: an address was derived, and the pool holds a backend more
\* than at construction and has just failed a query.
C14_Witness ==
    /\ lastCall.op = "createGatewayAddress"
    /\ lastCall.out = "ok"
    /\ lastCall.value = GatewayAddress(lastCall.key, lastCall.gHash)
    /\ Len(apis) > NumProviders
    /\ qpc = "done"
    /\ qResult = 0

\* An amount with no more decimals than the smallest unit has.
Representable(d) == ToFixed(d).e <= SatsExponent

\* C15: fromSats(toSats(x)) is x, in plain notation, for every amount x of
\* at most 8 decimals, and toSats(fromSats(n)) is n for every non-negative
\* integer n.
C15_RoundTrip ==
    /\ uBack # Blank /\ Representable(uX) => uBack = ToFixed(uX)
    /\ uNBack # Blank => uNBack = uN

\* C15 witness: 0.12345678 went to 12345678 and back, and an integer amount
\* went through fromSats and back.
C15_Witness ==
    /\ uX = Decimal(12345678, 8)
    /\ uSats = Decimal(12345678, 0)
    /\ uBack = uX
    /\ uN = Decimal(7, 0)
    /\ uUnits = Decimal(7, 8)
    /\ uNBack = uN

\* C16: a transfer enters SubmittedToSigner from DepositConfirming alone and
\* with a last observed depth at or above the threshold; no transfer is in
\* SubmittedToSigner or a later state with a last observed depth below it.
C16_SubmitOnlyAtThreshold ==
    /\ [](tState \in Submitted => tDepth >= Threshold)
    /\ [][ tState' = "SubmittedToSigner" /\ tState # "SubmittedToSigner" =>
               tState = "DepositConfirming" /\ tDepth >= Threshold
         ]_vars

\* C16 witness: the deposit, mined in block 1 and seen at height 3 with
\* depth 3, the threshold, has been submitted.
C16_Witness ==
    /\ tState = "SubmittedToSigner"
    /\ minedAt = << 1 >>
    /\ height = 3
    /\ tDepth = Threshold

\* C17 as stated: a loop iteration issues at most 2 fetchUTXOs queries, and
\* a poll is counted as failed only when the iteration has issued 2.
C17_TwoAttemptsPerPoll ==
    /\ [](pollTries <= 2)
    /\ [][ failedPolls' = failedPolls + 1 => pollTries = 2 ]_vars

\* What the handler is handed for a sequence of provider answers: every item
\* of every answer, answer after answer, each in its own order.
RECURSIVE Reported(_)
Reported(bs) ==
    IF bs = << >> THEN << >>
    ELSE [ i \in DOMAIN Head(bs) |-> ToDeposit(Head(bs)[i]) ]
             \o Reported(Tail(bs))

\* C18: the discovery is made once, before the first poll, with at most 2
\* fetchTXs attempts; when it answers, every item is handed to the handler;
\* when its last attempt fails, nothing is handed to the handler and no
\* error is raised; either way the loop is entered.
C18_DiscoveryOnceAndSwallowed ==
    /\ [](/\ txQueries <= TxAttempts
          /\ attempt <= TxAttempts
          /\ (polls > 0 => txQueries >= 1 /\ wpc # "fetchTXs"))
    /\ [][ /\ (wpc \notin {"idle", "fetchTXs"} =>
                  wpc' # "fetchTXs" /\ txQueries' = txQueries)
           /\ (wpc = "fetchTXs" /\ wpc' # "fetchTXs" =>
                  /\ wpc' \in {"fetchUTXOs", "returned"}
                  /\ werr' = None
                  /\ \/ /\ batches' = << AsList(utxoSet) >>
                        /\ calls' = Reported(batches')
                     \/ /\ attempt = TxAttempts
                        /\ txQueries = TxAttempts
                        /\ batches' = << >>
                        /\ calls' = << >>)
         ]_vars

\* C18 witness: both fetchTXs attempts failed with an output at the
\* address; nothing was reported, no error raised, and the first poll is
\* in flight.
C18_Witness ==
    /\ txQueries = TxAttempts
    /\ utxoSet # {}
    /\ wpc = "fetchUTXOs"
    /\ polls = 1
    /\ calls = << >>
    /\ werr = None

\* C19: the handler invocations are the items of the dispatched batches,
\* batch after batch, each batch in the order the provider returned it.
C19_BatchOrder == calls = Reported(batches)

\* C19 witness: a second batch of at least two items was dispatched after a
\* first batch that was not empty.
C19_Witness ==
    /\ Len(batches) >= 2
    /\ Len(batches[1]) >= 1
    /\ Len(batches[2]) >= 2
    /\ calls = Reported(batches)

\* The handler has been invoked for the output.
HandlerInvokedFor(tx) == \E i \in DOMAIN calls : calls[i] = ToDeposit(tx)

\* C20: while the watcher runs uncancelled and fetchUTXOs does not fail for
\* ever, the handler is eventually invoked for every output at the watched
\* address, whatever failed before.
C20_DepositEventuallyReported ==
    \A tx \in Outputs :
        (tx \in utxoSet /\ wpc \in {"fetchTXs", "fetchUTXOs", "sleep"})
            ~> HandlerInvokedFor(tx)

\* C20 witness: the discovery and the first poll failed, and the handler
\* has been invoked for an output all the same.
C20_Witness ==
    /\ txQueries = TxAttempts
    /\ batches # << >>
    /\ failedPolls >= 1
    /\ Len(batches) = 1
    /\ HandlerInvokedFor(TxA)

\* C21: whatever the handler invocations do, every item of every batch is
\* handed to the handler, the items after one whose handler threw included;
\* once a batch was dispatched the watcher is in its loop with no error
\* raised; and a sleep that is over starts the next iteration while handler
\* invocations are still running.
C21_HandlersNeverAffectWatcher ==
    /\ calls = Reported(batches)
    /\ \A k \in DOMAIN batches : batches[k] = << TxA, TxB >>
    /\ calls # << >> => wpc \in {"fetchUTXOs", "sleep"} /\ werr = None
    /\ wpc = "sleep" /\ polls < MaxPolls => ENABLED SleepDone

\* C21 witness: the handler threw for the first item of both batches, the
\* invocations for the second items, one of each batch, are both still
\* running, and the second poll is already in flight.
C21_Witness ==
    /\ Len(batches) = 2
    /\ Len(calls) = 4
    /\ HandlerThrows(calls[1])
    /\ HandlerThrows(calls[3])
    /\ {2, 4} \subseteq Running
    /\ wpc = "fetchUTXOs"
    /\ werr = None

\* C22 as stated: every setStage call leaves the stage where it is or moves
\* it to the next stage of the cycle ready, confirming, confirmed,
\* renvm-signed, submit-to-eth, eth-confirmed, ready: it never moves
\* backwards and never skips a stage.
C22_StageFollowsCycle ==
    \A i \in 1..(Len(trail) - 1) :
        trail[i + 1] \in { trail[i], NextStageOf(trail[i]) }

====
